---- MODULE Spec2Model ----
(***************************************************************************)
(* State-machine model of the Line Plot widget                             *)
(* (orangecontrib/prototypes/widgets/owlineplot.py): the geometry kernel,  *)
(* LinePlotGraph (selection set, per-profile items), OWLinePlot (data,     *)
(* subset, selection list, settings context, display mode, groups) and    *)
(* the Selected Data / annotated outputs.                                  *)
(*                                                                         *)
(* A handler is an operator from a state record to a state record.  A      *)
(* Python exception is the field exc: once set, every later step of the    *)
(* handler is skipped, and the fields keep the values they had when the    *)
(* exception was raised (the signal manager and Qt log the exception and   *)
(* go on with the next event).                                             *)
(***************************************************************************)
EXTENDS Integers, Sequences, FiniteSets, TLC

(* ------------------------------ bounds --------------------------------- *)

\* largest number of rows of an input table
MaxRows == 2

\* largest value in a column and largest number of rows of a group whose
\* error bar is computed on its own
MaxValue == 2
MaxGroup == 5

\* largest coordinate of a point given to the geometry kernel on its own
MaxCoord == 2

\* largest coordinate of a point of a polyline given to
\* line_segments_line_intersect on its own, and its largest number of points
MaxPolyCoord == 1
MaxPoints == 3

\* largest row index and longest index list given to set() on its own
MaxIndex == 8
MaxPicked == 4

(* --------------------------- program constants ------------------------- *)

RANGE_WITH_MEAN == 0
INSTANCES == 1
MEAN == 2
INSTANCES_WITH_MEAN == 3

LinePlotDisplay == {RANGE_WITH_MEAN, INSTANCES, MEAN, INSTANCES_WITH_MEAN}

\* Orange.widgets.utils.plot tool states, as imported by the widget
ToolStates == {"SELECT", "PANNING", "ZOOMING"}

\* Qt keyboard modifiers read by LinePlotGraph.select
KeyboardModifiers == {{}, {"ctrl"}, {"alt"}, {"shift"}, {"ctrl", "shift"}}

NoExc == "none"

(* ------------------------------ input tables --------------------------- *)
(* A table is its domain and its number of rows.  Tables of domain "A" are *)
(* row prefixes of one table (as a row filter upstream produces them), so  *)
(* they share row ids; domain "B" is another table with continuous         *)
(* columns; domain "N" has no continuous column.  dom = "none" is None.    *)

NoData == [dom |-> "none", n |-> 0]

\* tables of domain "M": continuous columns and a discrete class variable
\* "m" whose value is missing in the first row
MissingKeyTables == {[dom |-> "M", n |-> k] : k \in 0..MaxRows}

Datasets ==
    {NoData}
    \cup {[dom |-> "A", n |-> k] : k \in 0..MaxRows}
    \cup {[dom |-> "B", n |-> 1], [dom |-> "N", n |-> 1]}

\* row ids (Table.ids); ids are integers of the same kind as row indices
IdBase(dom) == IF dom = "A" THEN 1 ELSE MaxRows + 2

IdOf(d, i) == IdBase(d.dom) + i

Ids(d) == {IdOf(d, i) : i \in 0..(d.n - 1)}

\* continuous attributes of a domain (data.domain.attributes, is_continuous)
ContinuousAttrs(dom) == IF dom \in {"A", "B", "M"} THEN 2 ELSE 0

\* data.domain.class_var when it is discrete, else "None"
ClassVar(dom) == IF dom = "A" THEN "c" ELSE IF dom = "M" THEN "m" ELSE "None"

\* discrete variables of the domain (DomainModel, valid_types=DiscreteVariable)
DiscreteVars(dom) ==
    IF dom = "A" THEN {"c"} ELSE IF dom = "N" THEN {"d"}
    ELSE IF dom = "M" THEN {"m"} ELSE {}

\* len(group_var.values)
NumValues(var) == IF var \in {"c", "m"} THEN 2 ELSE 1

NaN == -1

\* value of a discrete column in row i (NaN: missing)
ColumnValue(var, i) ==
    IF var = "c" THEN (IF i = 2 THEN NaN ELSE i % 2)
    ELSE IF var = "m" THEN (IF i = 0 THEN NaN ELSE i % 2)
    ELSE 0

\* the profile of row i: y values at x = 1..M
ProfileY(d, i) == [j \in 1..ContinuousAttrs(d.dom) |-> 2 * i + 1]

\* a subset table is None, or a table with a set of row ids (maybe no row)
NoSubset == [isNone |-> TRUE, ids |-> {}]

Subsets ==
    {NoSubset, [isNone |-> FALSE, ids |-> {}]}
    \cup {[isNone |-> FALSE, ids |-> {i}] : i \in 1..MaxRows}

(* ------------------------------ helpers -------------------------------- *)

Range(seq) == {seq[k] : k \in 1..Len(seq)}

SetMin(S) == CHOOSE m \in S : \A x \in S : m <= x

SetMax(S) == CHOOSE m \in S : \A x \in S : m >= x

\* list(set) of small non-negative ints: CPython iterates them by hash slot,
\* which for ints below the table size (8) is ascending order
RECURSIVE SetToList(_)
SetToList(S) == IF S = {} THEN <<>>
                ELSE LET m == SetMin(S) IN <<m>> \o SetToList(S \ {m})

(* ------------------------- CPython set of ints ------------------------- *)
(* set(indices) and list(set) as CPython's setobject.c computes them for   *)
(* non-negative ints (hash(i) = i): an open-addressing table of a power of *)
(* two slots, iterated in slot order.                                      *)

PySet_MINSIZE == 8
LINEAR_PROBES == 9
PERTURB_SHIFT == 5

EmptySlot == -1

NewTable(size) == [i \in 0..(size - 1) |-> EmptySlot]

TableSize(table) == Cardinality(DOMAIN table)

Entries(table) == {i \in DOMAIN table : table[i] # EmptySlot}

\* the slot of key: the first slot of the probe sequence that is unused or
\* holds key (linear probes where they fit before the end of the table,
\* then i = (i * 5 + 1 + perturb) & mask)
RECURSIVE set_lookkey(_, _, _, _)
set_lookkey(table, key, i, perturb) ==
    LET mask == TableSize(table) - 1
        probes == IF i + LINEAR_PROBES <= mask THEN LINEAR_PROBES ELSE 0
        found == {j \in i..(i + probes) : table[j] \in {EmptySlot, key}}
        shifted == perturb \div (2 ^ PERTURB_SHIFT)
    IN IF found # {} THEN SetMin(found)
       ELSE set_lookkey(table, key, (i * 5 + 1 + shifted) % (mask + 1),
                        shifted)

set_insert(table, key) ==
    [table EXCEPT ![set_lookkey(table, key, key % TableSize(table), key)] = key]

RECURSIVE set_insert_all(_, _, _)
set_insert_all(table, old, i) ==
    IF i >= TableSize(old) THEN table
    ELSE set_insert_all(IF old[i] = EmptySlot THEN table
                        ELSE set_insert(table, old[i]),
                        old, i + 1)

\* the smallest table size above minused
RECURSIVE set_new_size(_, _)
set_new_size(newsize, minused) ==
    IF newsize > minused THEN newsize ELSE set_new_size(newsize * 2, minused)

\* set_table_resize: the entries are inserted again in slot order
set_table_resize(table, minused) ==
    set_insert_all(NewTable(set_new_size(PySet_MINSIZE, minused)), table, 0)

\* set_add_entry: the table grows to four times the entries in use when
\* three fifths of it are filled
set_add_entry(table, key) ==
    LET t == set_insert(table, key)
        fill == Cardinality(Entries(t))
    IN IF t = table \/ fill * 5 < (TableSize(t) - 1) * 3 THEN t
       ELSE set_table_resize(t, fill * 4)

\* set(indices)
RECURSIVE set_update(_, _, _)
set_update(table, indices, k) ==
    IF k > Len(indices) THEN table
    ELSE set_update(set_add_entry(table, indices[k]), indices, k + 1)

PySet(indices) == set_update(NewTable(PySet_MINSIZE), indices, 1)

\* list(set): the entries in slot order
RECURSIVE PyList(_, _)
PyList(table, i) ==
    IF i >= TableSize(table) THEN <<>>
    ELSE (IF table[i] = EmptySlot THEN <<>> ELSE <<table[i]>>)
         \o PyList(table, i + 1)

(* ------------------------------ error bars ----------------------------- *)
(* One column of a group's data.X, without missing values.  Mean and       *)
(* percentiles of n values are held as integers, multiplied by 4 * n.      *)

RECURSIVE Sum(_)
Sum(col) == IF col = <<>> THEN 0 ELSE Head(col) + Sum(Tail(col))

RECURSIVE SortInsert(_, _)
SortInsert(sorted, v) ==
    IF sorted = <<>> THEN <<v>>
    ELSE IF v <= Head(sorted) THEN <<v>> \o sorted
    ELSE <<Head(sorted)>> \o SortInsert(Tail(sorted), v)

RECURSIVE Sort(_)
Sort(col) == IF col = <<>> THEN <<>> ELSE SortInsert(Sort(Tail(col)), Head(col))

\* np.nanmean(data.X, axis=0), times 4 * n
nanmean(col) == 4 * Sum(col)

\* np.nanpercentile(data.X, 25 * quarter, axis=0), times 4 * n: linear
\* interpolation between the two values next to position
\* quarter * (n - 1) / 4 of the sorted column
nanpercentile(col, quarter) ==
    LET n == Len(col)
        x == Sort(col)
        lower == (quarter * (n - 1)) \div 4
        part == (quarter * (n - 1)) % 4
    IN n * (4 * x[lower + 1]
            + (IF part = 0 THEN 0 ELSE part * (x[lower + 2] - x[lower + 1])))

Minimum(a, b) == IF a <= b THEN a ELSE b

Maximum(a, b) == IF a >= b THEN a ELSE b

\* np.clip(a, a_min, a_max) is np.minimum(a_max, np.maximum(a, a_min))
clip(a, a_min, a_max) == Minimum(a_max, Maximum(a, a_min))

\* get_error_bar: the extents below and above the mean, times 4 * n
get_error_bar(col) ==
    LET mean == nanmean(col)
        q1 == nanpercentile(col, 1)
        q3 == nanpercentile(col, 3)
    IN [bottom |-> clip(mean - q1, 0, mean - q1),
        top |-> clip(q3 - mean, 0, q3 - mean)]

(* ---------------------------- geometry kernel -------------------------- *)

ccw(a, b, c) == (c.y - a.y) * (b.x - a.x) > (b.y - a.y) * (c.x - a.x)

\* variant: only the first test, that a and b lie on different sides of
\* the line through c and d
intersects_OneTest(a, b, c, d) ==
    ccw(a, c, d) # ccw(b, c, d)

\* variant: either test is enough
intersects_EitherTest(a, b, c, d) ==
    \/ ccw(a, c, d) # ccw(b, c, d)
    \/ ccw(a, b, c) # ccw(a, b, d)

intersects(a, b, c, d) ==
    /\ ccw(a, c, d) # ccw(b, c, d)
    /\ ccw(a, b, c) # ccw(a, b, d)

\* the i-th point of an item's data (lists are indexed from 1)
point(item, i) == [x |-> item.xData[i], y |-> item.yData[i]]

\* the loop of line_segments_line_intersect from segment i on: the first
\* segment that intersects the line ends it
RECURSIVE any_segment_intersects(_, _, _, _)
any_segment_intersects(p1, p2, item, i) ==
    IF i > Len(item.xData) - 1 THEN FALSE
    ELSE IF intersects(p1, p2, point(item, i), point(item, i + 1)) THEN TRUE
    ELSE any_segment_intersects(p1, p2, item, i + 1)

\* variant: the last segment is not looked at
line_segments_line_intersect_SkipsLast(p1, p2, item) ==
    any_segment_intersects(
        p1, p2,
        [xData |-> SubSeq(item.xData, 1, Len(item.xData) - 1),
         yData |-> SubSeq(item.yData, 1, Len(item.yData) - 1)], 1)

line_segments_line_intersect(p1, p2, item) ==
    any_segment_intersects(p1, p2, item, 1)

\* the data of the LinePlotItem of row i: xData = 1..M, yData = the row
ProfileItem(d, i) ==
    [xData |-> [j \in 1..ContinuousAttrs(d.dom) |-> j],
     yData |-> ProfileY(d, i)]

\* end points of a cutting line, in plot coordinates: it starts at x = 1
\* and ends at x = 2, between or outside the profiles
LassoStarts == {[x |-> 1, y |-> 2 * k] : k \in 0..MaxRows}

LassoEnds == {[x |-> 2, y |-> 2 * k] : k \in 0..MaxRows}

(* ------------------------------- state --------------------------------- *)

VARIABLES
    data,              \* OWLinePlot.data
    data_subset,       \* OWLinePlot.data_subset
    subset_selection,  \* OWLinePlot.subset_selection (row ids)
    selection,         \* OWLinePlot.selection (list of row indices)
    graph_variables,   \* len(OWLinePlot.graph_variables)
    group_var,         \* OWLinePlot.group_var ("None" or a variable)
    group_vars,        \* domain shown by the "Group by" list ("none": empty)
    display_index,     \* OWLinePlot.display_index
    display_quartiles, \* OWLinePlot.display_quartiles
    profiles,          \* OWLinePlot.__profiles is not None
    groups,            \* OWLinePlot.__groups
    not_enough_attrs,  \* Information.not_enough_attrs is shown
    current_context,   \* domain of the open settings context ("none": closed)
    contexts,          \* saved context values per domain
    items,             \* LinePlotGraph._items: index -> LinePlotItem
    graph_selection,   \* LinePlotGraph.selection
    graph_state,       \* LinePlotGraph.state
    selected_data,     \* last value sent to Outputs.selected_data
    annotated_data,    \* last value sent to Outputs.annotated_data
    events,            \* what the handlers of the last event did, in order
    errors,            \* exceptions raised by the handlers of the last event
    last,              \* the last event and its inputs
    args,              \* arguments of a function evaluated on its own
    result             \* what that function returned

\* the variables of the widget
wvars == <<data, data_subset, subset_selection, selection, graph_variables,
           group_var, group_vars, display_index, display_quartiles, profiles,
           groups, not_enough_attrs, current_context, contexts, items,
           graph_selection, graph_state, selected_data, annotated_data,
           events, errors, last>>

vars == <<wvars, args, result>>

\* the program state as one record; exc is the exception in flight
St == [data |-> data, data_subset |-> data_subset,
       subset_selection |-> subset_selection, selection |-> selection,
       graph_variables |-> graph_variables, group_var |-> group_var,
       group_vars |-> group_vars, display_index |-> display_index,
       display_quartiles |-> display_quartiles, profiles |-> profiles,
       groups |-> groups, not_enough_attrs |-> not_enough_attrs,
       current_context |-> current_context, contexts |-> contexts,
       items |-> items, graph_selection |-> graph_selection,
       graph_state |-> graph_state, selected_data |-> selected_data,
       annotated_data |-> annotated_data, events |-> events,
       errors |-> errors, exc |-> NoExc]

NoOutput == [isNone |-> TRUE, rows |-> <<>>]

NoAnnotated == [isNone |-> TRUE, marks |-> <<>>]

NoGroups == [isNone |-> TRUE, list |-> <<>>]

NoContext == [present |-> FALSE, selection |-> <<>>, group_var |-> "None"]

NoItems == [i \in {} |-> [id |-> 0, selected |-> FALSE, in_subset |-> FALSE,
                          visible |-> FALSE]]

Raise(s, e) == [s EXCEPT !.exc = e]

Event(s, e) == IF s.exc # NoExc THEN s ELSE [s EXCEPT !.events = Append(@, e)]

(* ---------------------------- OWLinePlot: reads ------------------------ *)

has_selection(s) == s.selection # <<>>

\* bool(self.data_subset): None and a table without rows are both false
has_subset(s) == ~s.data_subset.isNone /\ s.data_subset.ids # {}

(* ------------------------------ outputs -------------------------------- *)

\* data[selection]: the rows at the listed indices, in list order
RowsAt(d, sel) == [k \in 1..Len(sel) |-> IdOf(d, sel[k])]

\* variant: the marks follow the positions in the selection list
Annotated_ByPosition(d, sel) ==
    IF d = NoData THEN NoAnnotated
    ELSE [isNone |-> FALSE, marks |-> [k \in 1..d.n |-> k <= Len(sel)]]

\* create_annotated_table(data, selection): None without data
Annotated(d, sel) ==
    IF d = NoData THEN NoAnnotated
    ELSE [isNone |-> FALSE, marks |-> [k \in 1..d.n |-> (k - 1) \in Range(sel)]]

commit(s) ==
    IF s.exc # NoExc THEN s
    ELSE IF s.data # NoData /\ \E i \in Range(s.selection) : i >= s.data.n
    THEN Raise(s, "IndexError")
    ELSE Event([s EXCEPT
             !.selected_data =
                 IF s.data # NoData /\ has_selection(s)
                 THEN [isNone |-> FALSE, rows |-> RowsAt(s.data, s.selection)]
                 ELSE NoOutput,
             !.annotated_data = Annotated(s.data, s.selection)], "commit")

(* ----------------------- LinePlotGraph: selection ---------------------- *)

\* variants of the modifier branch with one branch wrong
NewSelection_AltShiftSwapped(sel, indices, keys) ==
    IF "ctrl" \in keys THEN (sel \ indices) \cup (indices \ sel)
    ELSE IF "alt" \in keys THEN sel \cup indices
    ELSE IF "shift" \in keys THEN sel \ indices
    ELSE indices

NewSelection_ToggleAdds(sel, indices, keys) ==
    IF "ctrl" \in keys THEN sel \cup indices
    ELSE IF "alt" \in keys THEN sel \ indices
    ELSE IF "shift" \in keys THEN sel \cup indices
    ELSE indices

NewSelection_ShiftToggles(sel, indices, keys) ==
    IF "ctrl" \in keys THEN (sel \ indices) \cup (indices \ sel)
    ELSE IF "alt" \in keys THEN sel \ indices
    ELSE IF "shift" \in keys THEN (sel \ indices) \cup (indices \ sel)
    ELSE indices

\* the modifier branch of LinePlotGraph.select: ctrl is tested first, then
\* alt, then shift
NewSelection(sel, indices, keys) ==
    IF "ctrl" \in keys THEN (sel \ indices) \cup (indices \ sel)
    ELSE IF "alt" \in keys THEN sel \ indices
    ELSE IF "shift" \in keys THEN sel \cup indices
    ELSE indices

\* self._items[i].deselect() / .select() for every i of a set; an index
\* without an item is a KeyError
MarkSelected(s, S, flag) ==
    IF s.exc # NoExc THEN s
    ELSE LET known == S \cap DOMAIN s.items
             marked == [s EXCEPT !.items =
                 [i \in DOMAIN s.items |->
                     IF i \in known THEN [s.items[i] EXCEPT !.selected = flag]
                     ELSE s.items[i]]]
         IN IF known = S THEN marked ELSE Raise(marked, "KeyError")

\* self._items_by_id[i].into_subset() for every id; an id without an item is
\* a KeyError, raised after the smaller ids were marked
select_subset(s, ids) ==
    IF s.exc # NoExc THEN s
    ELSE LET known == {s.items[i].id : i \in DOMAIN s.items}
             missing == ids \ known
             done == IF missing = {} THEN ids
                     ELSE {i \in ids : i < SetMin(missing)}
             marked == [s EXCEPT !.items =
                 [i \in DOMAIN s.items |->
                     IF s.items[i].id \in done
                     THEN [s.items[i] EXCEPT !.in_subset = TRUE]
                     ELSE s.items[i]]]
         IN IF missing = {} THEN marked ELSE Raise(marked, "KeyError")

deselect_subset(s) ==
    IF s.exc # NoExc THEN s
    ELSE [s EXCEPT !.items =
             [i \in DOMAIN s.items |-> [s.items[i] EXCEPT !.in_subset = FALSE]]]

\* LinePlotGraph.reset
graph_reset(s) ==
    [s EXCEPT !.items = NoItems, !.graph_selection = {},
              !.graph_state = "SELECT"]

(* --------------------- OWLinePlot: groups and visibility --------------- *)

\* a group's curves: the rows they are computed from and what is shown;
\* curves added to the plot are visible until told otherwise
NoGroup == [isNone |-> TRUE, rows |-> {}, mean |-> FALSE, range |-> FALSE,
            error_bar |-> FALSE]

\* __plot_group: np.nanmax over no rows raises ValueError, after
\* self.__groups was set to the groups plotted so far
plot_group(s, rows) ==
    IF s.exc # NoExc THEN s
    ELSE IF rows = {} THEN Raise(s, "ValueError")
    ELSE [s EXCEPT !.groups.list =
             Append(@, [isNone |-> FALSE, rows |-> rows, mean |-> TRUE,
                        range |-> TRUE, error_bar |-> TRUE])]

\* rows whose value of the grouping variable is v (np.flatnonzero(col == v))
GroupIndices(d, var, v) == {i \in 0..(d.n - 1) : ColumnValue(var, i) = v}

RECURSIVE plot_group_values(_, _)
plot_group_values(s, v) ==
    IF s.exc # NoExc \/ v >= NumValues(s.group_var) THEN s
    ELSE LET rows == GroupIndices(s.data, s.group_var, v)
         IN plot_group_values(
                IF rows = {}
                THEN [s EXCEPT !.groups.list = Append(@, NoGroup)]
                ELSE plot_group(s, rows),
                v + 1)

plot_groups(s) ==
    IF s.exc # NoExc THEN s
    ELSE LET s1 == [s EXCEPT !.groups = [isNone |-> FALSE, list |-> <<>>]]
         IN IF s.group_var = "None"
            THEN plot_group(s1, 0..(s.data.n - 1))
            ELSE plot_group_values(s1, 0)

\* variant: the error bars are shown only together with the mean
update_visibility_groups_ErrorBarWithMean(s) ==
    IF s.exc # NoExc THEN s
    ELSE LET show_mean == s.display_index \in
                              {MEAN, INSTANCES_WITH_MEAN, RANGE_WITH_MEAN}
             show_range == s.display_index = RANGE_WITH_MEAN
         IN [s EXCEPT !.groups.list =
                [k \in 1..Len(s.groups.list) |->
                    IF s.groups.list[k].isNone THEN s.groups.list[k]
                    ELSE [s.groups.list[k] EXCEPT
                             !.mean = show_mean, !.range = show_range,
                             !.error_bar = s.display_quartiles /\ show_mean]]]

update_visibility_groups(s) ==
    IF s.exc # NoExc THEN s
    ELSE LET show_mean == s.display_index \in
                              {MEAN, INSTANCES_WITH_MEAN, RANGE_WITH_MEAN}
             show_range == s.display_index = RANGE_WITH_MEAN
         IN [s EXCEPT !.groups.list =
                [k \in 1..Len(s.groups.list) |->
                    IF s.groups.list[k].isNone THEN s.groups.list[k]
                    ELSE [s.groups.list[k] EXCEPT
                             !.mean = show_mean, !.range = show_range,
                             !.error_bar = s.display_quartiles]]]

RECURSIVE update_visibility(_, _)

\* variant: the commit is forgotten
selection_changed_NoCommit(s, keys) ==
    IF s.exc # NoExc THEN s
    ELSE update_visibility(
             Event([s EXCEPT !.selection = SetToList(s.graph_selection)],
                   "selection_changed"),
             keys)

\* keys: the keyboard modifiers held while the handler runs
\* (QApplication.keyboardModifiers(), read by LinePlotGraph.select)
selection_changed(s, keys) ==
    IF s.exc # NoExc THEN s
    ELSE commit(update_visibility(
             Event([s EXCEPT !.selection = SetToList(s.graph_selection)],
                   "selection_changed"),
             keys))

\* LinePlotGraph.select(indices)
graph_select(s, indices, keys) ==
    IF s.exc # NoExc THEN s
    ELSE LET s1 == MarkSelected(s, s.graph_selection, FALSE)
             s2 == IF s1.exc # NoExc THEN s1
                   ELSE [s1 EXCEPT !.graph_selection =
                            NewSelection(s.graph_selection, Range(indices), keys)]
             s3 == MarkSelected(s2, s2.graph_selection, TRUE)
         IN selection_changed(s3, keys)

\* variant: the items are deselected but the set is not cleared
deselect_all_NoClear(s, keys) ==
    IF s.exc # NoExc THEN s
    ELSE selection_changed(MarkSelected(s, s.graph_selection, FALSE), keys)

\* LinePlotGraph.deselect_all
deselect_all(s, keys) ==
    IF s.exc # NoExc THEN s
    ELSE LET s1 == MarkSelected(s, s.graph_selection, FALSE)
             s2 == IF s1.exc # NoExc THEN s1
                   ELSE [s1 EXCEPT !.graph_selection = {}]
         IN selection_changed(s2, keys)

\* the indices of the LinePlotItems in the view box that the line crosses,
\* in the order the items were added
LineCandidates(s, p1, p2) ==
    SetToList({i \in DOMAIN s.items :
                  line_segments_line_intersect(p1, p2,
                                               ProfileItem(s.data, i))})

select_by_line(s, p1, p2, keys) ==
    graph_select(s, LineCandidates(s, p1, p2), keys)

select_by_click(s, i, keys) == graph_select(s, <<i>>, keys)

\* variant: stale indices are dropped one by one
select_data_instances_Filter(s, keys) ==
    IF s.exc # NoExc THEN s
    ELSE IF s.data = NoData \/ s.data.n = 0 \/ ~has_selection(s) THEN s
    ELSE LET s1 == [s EXCEPT !.selection =
                       SetToList({i \in Range(s.selection) : i < s.data.n})]
         IN graph_select(s1, s1.selection, keys)

select_data_instances(s, keys) ==
    IF s.exc # NoExc THEN s
    ELSE IF s.data = NoData \/ s.data.n = 0 \/ ~has_selection(s) THEN s
    ELSE LET s1 == IF SetMax(Range(s.selection)) >= s.data.n
                   THEN [s EXCEPT !.selection = <<>>] ELSE s
         IN graph_select(s1, s1.selection, keys)

\* _plot_profiles: one item per row, then the stored selection is applied
plot_profiles(s, keys) ==
    IF s.exc # NoExc THEN s
    ELSE select_data_instances(
             Event([s EXCEPT
                 !.profiles = TRUE,
                 !.items = [i \in 0..(s.data.n - 1) |->
                               [id |-> IdOf(s.data, i), selected |-> FALSE,
                                in_subset |-> FALSE, visible |-> TRUE]]],
                 "plot_profiles"),
             keys)

\* the indices __update_visibility_profiles treats as selected: the
\* selection list chained with the row ids of the subset table
ShownSelection(s) ==
    Range(s.selection) \cup (IF has_subset(s) THEN s.data_subset.ids ELSE {})

ProfileVisible(s, i) ==
    LET show_selection == s.display_index = RANGE_WITH_MEAN
        show_inst == s.display_index \in {INSTANCES, INSTANCES_WITH_MEAN}
    IN show_inst \/ (i \in ShownSelection(s) /\ show_selection)

update_visibility_profiles(s, keys) ==
    IF s.exc # NoExc THEN s
    ELSE LET show_selection == s.display_index = RANGE_WITH_MEAN
             show_inst == s.display_index \in {INSTANCES, INSTANCES_WITH_MEAN}
             p == plot_profiles(s, keys)
             s1 == IF ~s.profiles /\ (show_inst \/ show_selection)
                      /\ s.data # NoData
                   THEN select_subset(p, p.subset_selection)
                   ELSE s
         IN IF s1.exc # NoExc \/ ~s1.profiles THEN s1
            ELSE [s1 EXCEPT !.items =
                     [i \in DOMAIN s1.items |->
                         [s1.items[i] EXCEPT !.visible = ProfileVisible(s1, i)]]]

update_visibility(s, keys) ==
    IF s.exc # NoExc THEN s
    ELSE Event(update_visibility_groups(update_visibility_profiles(s, keys)),
               "update_visibility")

(* --------------------------- settings context ------------------------- *)
(* PerfectDomainContextHandler: one context per domain, matched only by    *)
(* an identical domain; it holds the two ContextSettings, selection and    *)
(* group_var.                                                              *)

Domains == {"A", "B", "N", "M"}

\* closeContext: the settings of the widget are stored in the open context
closeContext(s) ==
    IF s.exc # NoExc \/ s.current_context = "none" THEN s
    ELSE [s EXCEPT
             !.contexts[s.current_context] =
                 [present |-> TRUE, selection |-> s.selection,
                  group_var |-> s.group_var],
             !.current_context = "none"]

\* openContext(data): nothing without data; a context of the same domain
\* gives its settings to the widget; a new context takes the widget's
openContext(s, d) ==
    IF s.exc # NoExc \/ d = NoData THEN s
    ELSE IF s.contexts[d.dom].present
    THEN [s EXCEPT !.selection = s.contexts[d.dom].selection,
                   !.group_var = s.contexts[d.dom].group_var,
                   !.current_context = d.dom]
    ELSE [s EXCEPT
             !.contexts[d.dom] =
                 [present |-> TRUE, selection |-> s.selection,
                  group_var |-> s.group_var],
             !.current_context = d.dom]

(* --------------------------- OWLinePlot: handlers ---------------------- *)

\* OWLinePlot.clear
clear(s) ==
    IF s.exc # NoExc THEN s
    ELSE graph_reset([s EXCEPT !.groups = NoGroups, !.profiles = FALSE,
                               !.graph_variables = 0, !.group_vars = "none"])

setup_plot(s, keys) ==
    IF s.exc # NoExc \/ s.data = NoData THEN s
    ELSE LET s1 == IF s.display_index \in {INSTANCES, INSTANCES_WITH_MEAN}
                   THEN plot_profiles(s, keys) ELSE s
         IN update_visibility(plot_groups(s1), keys)

\* variant: the table without continuous columns is kept
set_data_KeepsData(s, d, keys) ==
    LET s1 == clear(closeContext(s))
        s2 == [s1 EXCEPT !.not_enough_attrs = FALSE, !.data = d,
                         !.selection = <<>>]
        s3 == [s2 EXCEPT !.group_vars = d.dom,
                         !.group_var = ClassVar(d.dom),
                         !.graph_variables = ContinuousAttrs(d.dom)]
    IN IF d = NoData THEN commit(setup_plot(openContext(s2, d), keys))
       ELSE IF ContinuousAttrs(d.dom) < 1
       THEN commit([s3 EXCEPT !.not_enough_attrs = TRUE])
       ELSE commit(setup_plot(openContext(s3, d), keys))

set_data(s, d, keys) ==
    LET s1 == clear(closeContext(s))
        s2 == [s1 EXCEPT !.not_enough_attrs = FALSE, !.data = d,
                         !.selection = <<>>]
        s3 == [s2 EXCEPT !.group_vars = d.dom,
                         !.group_var = ClassVar(d.dom),
                         !.graph_variables = ContinuousAttrs(d.dom)]
    IN IF d = NoData THEN commit(setup_plot(openContext(s2, d), keys))
       ELSE IF ContinuousAttrs(d.dom) < 1
       THEN commit([s3 EXCEPT !.data = NoData, !.not_enough_attrs = TRUE])
       ELSE commit(setup_plot(openContext(s3, d), keys))

set_data_subset(s, subset) ==
    LET s1 == [s EXCEPT !.data_subset = subset]
    IN IF s.subset_selection # {} THEN deselect_subset(s1) ELSE s1

\* variant: the outputs are sent again
handleNewSignals_Commits(s, keys) ==
    LET s1 == [s EXCEPT !.subset_selection = {}]
        intersection == Ids(s.data) \cap s.data_subset.ids
        s2 == IF s1.data # NoData /\ has_subset(s1) /\ s1.graph_variables > 0
              THEN LET s3 == [s1 EXCEPT !.subset_selection = intersection]
                   IN IF s3.profiles THEN select_subset(s3, intersection)
                      ELSE s3
              ELSE s1
    IN commit(IF s2.data # NoData THEN update_visibility(s2, keys) ELSE s2)

handleNewSignals(s, keys) ==
    LET s1 == [s EXCEPT !.subset_selection = {}]
        intersection == Ids(s.data) \cap s.data_subset.ids
        s2 == IF s1.data # NoData /\ has_subset(s1) /\ s1.graph_variables > 0
              THEN LET s3 == [s1 EXCEPT !.subset_selection = intersection]
                   IN IF s3.profiles THEN select_subset(s3, intersection)
                      ELSE s3
              ELSE s1
    IN IF s2.data # NoData THEN update_visibility(s2, keys) ELSE s2

\* callback of the "Group by" list, after it has set group_var
group_var_changed(s, keys) ==
    IF s.data = NoData \/ s.graph_variables = 0 THEN s
    ELSE update_visibility(plot_groups(s), keys)

\* callback of the display radio buttons, after they have set display_index
display_changed(s, keys) == update_visibility(s, keys)

(* ----------------------------- LinePlotViewBox ------------------------- *)

\* mouseDragEvent (axis is None): only the last event of a left-button drag
\* made in the SELECT state selects; everything else draws or pans
\* variant: the tool state is not looked at
mouseDragEvent_AnyToolState(s, button, isFinish, p1, p2, keys) ==
    IF button = "left" /\ isFinish
    THEN select_by_line(s, p1, p2, keys)
    ELSE s

mouseDragEvent(s, button, isFinish, p1, p2, keys) ==
    IF s.graph_state = "SELECT" /\ button = "left" /\ isFinish
    THEN select_by_line(s, p1, p2, keys)
    ELSE s

\* mouseClickEvent of the view box: a click that no item accepted
mouseClickEvent(s, button, keys) ==
    IF button = "right" THEN s ELSE deselect_all(s, keys)

(* ------------------------------ transitions ---------------------------- *)

\* a handler has returned or raised: the exception is logged
Caught(s) ==
    [s EXCEPT !.errors = IF s.exc = NoExc THEN @ ELSE Append(@, s.exc),
              !.exc = NoExc]

Begin == [St EXCEPT !.events = <<>>, !.errors = <<>>]

Becomes(s) ==
    /\ data' = s.data
    /\ data_subset' = s.data_subset
    /\ subset_selection' = s.subset_selection
    /\ selection' = s.selection
    /\ graph_variables' = s.graph_variables
    /\ group_var' = s.group_var
    /\ group_vars' = s.group_vars
    /\ display_index' = s.display_index
    /\ display_quartiles' = s.display_quartiles
    /\ profiles' = s.profiles
    /\ groups' = s.groups
    /\ not_enough_attrs' = s.not_enough_attrs
    /\ current_context' = s.current_context
    /\ contexts' = s.contexts
    /\ items' = s.items
    /\ graph_selection' = s.graph_selection
    /\ graph_state' = s.graph_state
    /\ selected_data' = s.selected_data
    /\ annotated_data' = s.annotated_data
    /\ events' = s.events
    /\ errors' = s.errors

\* the event that was handled: op, the modifiers held during a gesture or a
\* load, the candidate indices a gesture passed to LinePlotGraph.select, the
\* table a load delivered
\* changed: the event changed the graph's selection
Did(op, keys, cand, d) ==
    /\ last' = [op |-> op, keys |-> keys, cand |-> cand, d |-> d,
                changed |-> graph_selection' # graph_selection]
    /\ UNCHANGED <<args, result>>

\* the widget after construction
InitWidget ==
    /\ data = NoData
    /\ data_subset = NoSubset
    /\ subset_selection = {}
    /\ selection = <<>>
    /\ graph_variables = 0
    /\ group_var = "None"
    /\ group_vars = "none"
    /\ display_index \in LinePlotDisplay
    /\ display_quartiles = FALSE
    /\ profiles = FALSE
    /\ groups = NoGroups
    /\ not_enough_attrs = FALSE
    /\ current_context = "none"
    /\ contexts = [dom \in Domains |-> NoContext]
    /\ items = NoItems
    /\ graph_selection = {}
    /\ graph_state = "SELECT"
    /\ selected_data = NoOutput
    /\ annotated_data = NoAnnotated
    /\ events = <<>>
    /\ errors = <<>>
    /\ last = [op |-> "init", keys |-> {}, cand |-> {}, d |-> NoData,
               changed |-> FALSE]

\* no function has been evaluated on its own
NotCalled == <<>>

Init ==
    /\ InitWidget
    /\ args = NotCalled
    /\ result = NotCalled

\* the Data input changes: set_data, then handleNewSignals
Load(d, keys) ==
    /\ Becomes(Caught(handleNewSignals(Caught(set_data(Begin, d, keys)), keys)))
    /\ Did("load", keys, {}, d)

\* the Data Subset input changes: set_data_subset, then handleNewSignals
SetSubset(subset, keys) ==
    /\ Becomes(Caught(handleNewSignals(Caught(set_data_subset(Begin, subset)),
                                       keys)))
    /\ Did("subset", {}, {}, NoData)

\* a display radio button is clicked
SetDisplay(m, keys) ==
    /\ Becomes(Caught(display_changed([Begin EXCEPT !.display_index = m], keys)))
    /\ Did("display", {}, {}, NoData)

\* the "Error bars" check box is toggled
SetQuartiles(keys) ==
    /\ Becomes(Caught(update_visibility(
           [Begin EXCEPT !.display_quartiles = ~@], keys)))
    /\ Did("quartiles", {}, {}, NoData)

\* len(self.group_vars): the placeholder and the discrete variables of the
\* domain the list shows; the empty list of clear() has no entry
group_vars_len(dom) ==
    IF dom = "none" THEN 0 ELSE 1 + Cardinality(DiscreteVars(dom))

\* group_view.isEnabled(): clear() disables the list, set_data enables it
\* when it holds more than the placeholder
group_view_enabled(dom) == group_vars_len(dom) > 1

\* an entry of the "Group by" list is chosen; a disabled list takes no input.
\* The callback hangs on the list's selectionChanged signal: choosing the
\* variable that is selected already changes nothing and calls nothing,
\* while clearing the selection (ctrl-click) sets group_var to None, also
\* when it is None already.
GroupVarChanged(v, keys) ==
    /\ group_view_enabled(group_vars)
    /\ v \in DiscreteVars(group_vars) \cup {"None"}
    /\ v # group_var \/ v = "None"
    /\ Becomes(Caught(group_var_changed([Begin EXCEPT !.group_var = v], keys)))
    /\ Did("group", {}, {}, NoData)

\* a left-button drag from p1 to p2 is released
Lasso(p1, p2, keys) ==
    /\ Becomes(Caught(mouseDragEvent(Begin, "left", TRUE, p1, p2, keys)))
    /\ Did("lasso", keys, Range(LineCandidates(St, p1, p2)), NoData)

\* one event of a drag in the view box, with any button, in any tool
\* state: a move (not the last event) or the release
Drag(button, isFinish, p1, p2, keys) ==
    /\ Becomes(Caught(mouseDragEvent(Begin, button, isFinish, p1, p2, keys)))
    /\ Did(IF button # "left" THEN "drag_other"
           ELSE IF isFinish THEN "drag_release" ELSE "drag_move",
           keys, Range(LineCandidates(St, p1, p2)), NoData)

\* the select, pan or zoom button of the tool bar is clicked
ToolButton(state) ==
    /\ Becomes([Begin EXCEPT !.graph_state = state])
    /\ Did("tool", {}, {}, NoData)

\* a visible profile is clicked (PlotCurveItem.sigClicked)
ClickProfile(i, keys) ==
    /\ i \in DOMAIN items
    /\ items[i].visible
    /\ Becomes(Caught(select_by_click(Begin, i, keys)))
    /\ Did("click", keys, {i}, NoData)

\* a click that hits no profile
ClickEmpty(button, keys) ==
    /\ Becomes(Caught(mouseClickEvent(Begin, button, keys)))
    /\ Did(IF button = "right" THEN "autorange" ELSE "click_empty",
           keys, {}, NoData)

(* ---------------------- functions on their own ------------------------ *)

\* a table of domain "A" with rows 0..MaxIndex
WideTable == [dom |-> "A", n |-> MaxIndex + 1]

\* lists of row indices without repetition
IndexLists ==
    {l \in UNION {[1..k -> 0..MaxIndex] : k \in 0..MaxPicked} :
        \A i, j \in DOMAIN l : i # j => l[i] # l[j]}

\* LinePlotGraph.select(indices) without modifier on WideTable, up to the
\* commit: selection = set(indices), OWLinePlot.selection = list(selection),
\* selected = data[selection]
SelectAndCommit ==
    /\ result = NotCalled
    /\ LET sel == PyList(PySet(args), 0)
           s == commit([St EXCEPT !.data = WideTable, !.selection = sel])
       IN result' = <<[selection |-> sel, selected |-> s.selected_data]>>
    /\ UNCHANGED <<wvars, args>>

\* points with integer coordinates
Grid == {[x |-> i, y |-> j] : i \in 0..MaxCoord, j \in 0..MaxCoord}

\* intersects is asked about two segments, each way round
Intersects ==
    /\ result = NotCalled
    /\ LET a == args[1]
           b == args[2]
           c == args[3]
           d == args[4]
       IN result' = <<[ab_cd |-> intersects(a, b, c, d),
                       cd_ab |-> intersects(c, d, a, b)]>>
    /\ UNCHANGED <<wvars, args>>

\* polylines: up to MaxPoints points in a corner of the grid, so that
\* cutting lines inside, across and outside their bounding box exist
PolyGrid == {[x |-> i, y |-> j] : i \in 0..MaxPolyCoord, j \in 0..MaxPolyCoord}

Polylines == UNION {[1..n -> PolyGrid] : n \in 0..MaxPoints}

\* the example polyline (1,0), (2,5), (3,0) with the cutting lines
\* (1.5,10)-(1.5,-10) and (10,10)-(10,-10); x is doubled to stay in the
\* integers, which neither ccw nor intersects can tell
ExamplePolyline ==
    <<[x |-> 2, y |-> 0], [x |-> 4, y |-> 5], [x |-> 6, y |-> 0]>>

ExampleHit ==
    [p1 |-> [x |-> 3, y |-> 10], p2 |-> [x |-> 3, y |-> -10],
     poly |-> ExamplePolyline]

ExampleMiss ==
    [p1 |-> [x |-> 20, y |-> 10], p2 |-> [x |-> 20, y |-> -10],
     poly |-> ExamplePolyline]

CutInputs ==
    [p1 : Grid, p2 : Grid, poly : Polylines] \cup {ExampleHit, ExampleMiss}

\* the item data of a polyline
ItemOf(poly) ==
    [xData |-> [k \in 1..Len(poly) |-> poly[k].x],
     yData |-> [k \in 1..Len(poly) |-> poly[k].y]]

\* select_by_line asks whether the line from p1 to p2 crosses an item
CutPolyline ==
    /\ result = NotCalled
    /\ result' = <<line_segments_line_intersect(args.p1, args.p2,
                                                ItemOf(args.poly))>>
    /\ UNCHANGED <<wvars, args>>

\* the columns of a group: 1..MaxGroup rows with values 0..MaxValue
Columns == UNION {[1..n -> 0..MaxValue] : n \in 1..MaxGroup}

\* __plot_group computes the error bar of a group's column
ErrorBar ==
    /\ result = NotCalled
    /\ result' = <<get_error_bar(args)>>
    /\ UNCHANGED <<wvars, args>>

(* ---------------------------- specifications --------------------------- *)

AllVars == {"None", "c", "d", "m"}

\* every event with every input
Next ==
    \/ \E d \in Datasets, keys \in KeyboardModifiers : Load(d, keys)
    \/ \E subset \in Subsets, keys \in KeyboardModifiers : SetSubset(subset, keys)
    \/ \E m \in LinePlotDisplay, keys \in KeyboardModifiers : SetDisplay(m, keys)
    \/ \E keys \in KeyboardModifiers : SetQuartiles(keys)
    \/ \E v \in AllVars, keys \in KeyboardModifiers : GroupVarChanged(v, keys)
    \/ \E p1 \in LassoStarts, p2 \in LassoEnds, keys \in KeyboardModifiers :
           Lasso(p1, p2, keys)
    \/ \E i \in 0..(MaxRows - 1), keys \in KeyboardModifiers :
           ClickProfile(i, keys)
    \/ \E button \in {"left", "right"}, keys \in KeyboardModifiers :
           ClickEmpty(button, keys)
    \/ \E button \in {"left", "right"}, isFinish \in BOOLEAN,
          p1 \in LassoStarts, p2 \in LassoEnds, keys \in KeyboardModifiers :
           Drag(button, isFinish, p1, p2, keys)
    \/ \E state \in ToolStates : ToolButton(state)

Spec == Init /\ [][Next]_vars

\* gestures under every modifier, on the largest table of domain "A"
NextGesture ==
    \/ \E d \in {NoData, [dom |-> "A", n |-> MaxRows]} : Load(d, {})
    \/ \E m \in LinePlotDisplay : SetDisplay(m, {})
    \/ \E p1 \in LassoStarts, p2 \in LassoEnds, keys \in KeyboardModifiers :
           Lasso(p1, p2, keys)
    \/ \E i \in 0..(MaxRows - 1), keys \in KeyboardModifiers :
           ClickProfile(i, keys)
    \/ \E button \in {"left", "right"}, keys \in KeyboardModifiers :
           ClickEmpty(button, keys)

SpecGesture == Init /\ [][NextGesture]_vars

\* loads of every table, with and without alt held, regrouping, display
\* modes, and unmodified gestures to make selections
NextLoad ==
    \/ \E d \in Datasets, keys \in {{}, {"alt"}} : Load(d, keys)
    \/ \E m \in LinePlotDisplay : SetDisplay(m, {})
    \/ \E v \in AllVars : GroupVarChanged(v, {})
    \/ \E p1 \in LassoStarts, p2 \in LassoEnds : Lasso(p1, p2, {})
    \/ ClickEmpty("left", {})

SpecLoad == Init /\ [][NextLoad]_vars

\* subsets against tables of domain "A", display modes and unmodified
\* gestures
NextSubset ==
    \/ \E d \in {NoData} \cup {[dom |-> "A", n |-> k] : k \in 1..MaxRows} :
           Load(d, {})
    \/ \E subset \in Subsets : SetSubset(subset, {})
    \/ \E m \in LinePlotDisplay : SetDisplay(m, {})
    \/ \E p1 \in LassoStarts, p2 \in LassoEnds : Lasso(p1, p2, {})
    \/ ClickEmpty("left", {})

SpecSubset == Init /\ [][NextSubset]_vars

\* loads of every table, regrouping, display modes and the error-bar check
\* box, with unmodified gestures to make selections
NextGroups ==
    \/ \E d \in Datasets : Load(d, {})
    \/ \E v \in AllVars : GroupVarChanged(v, {})
    \/ \E m \in LinePlotDisplay : SetDisplay(m, {})
    \/ SetQuartiles({})
    \/ \E p1 \in LassoStarts, p2 \in LassoEnds : Lasso(p1, p2, {})

SpecGroups == Init /\ [][NextGroups]_vars

\* a table without continuous columns among the loads, and every kind of
\* event that can follow it
NextInvalid ==
    \/ \E d \in {[dom |-> "A", n |-> MaxRows], [dom |-> "N", n |-> 1]} :
           Load(d, {})
    \/ \E subset \in {NoSubset, [isNone |-> FALSE, ids |-> {1}]} :
           SetSubset(subset, {})
    \/ \E m \in LinePlotDisplay : SetDisplay(m, {})
    \/ \E v \in AllVars : GroupVarChanged(v, {})
    \/ \E p2 \in LassoEnds, keys \in {{}, {"ctrl"}} :
           Lasso([x |-> 1, y |-> 0], p2, keys)
    \/ \E button \in {"left", "right"} : ClickEmpty(button, {})

SpecInvalid == Init /\ [][NextInvalid]_vars

\* loads of tables whose class value is missing in a row, and of a table
\* without missing values, regrouping and display modes
NextPartition ==
    \/ \E d \in MissingKeyTables \cup {[dom |-> "A", n |-> MaxRows]} :
           Load(d, {})
    \/ \E v \in AllVars : GroupVarChanged(v, {})
    \/ \E m \in LinePlotDisplay : SetDisplay(m, {})

SpecPartition == Init /\ [][NextPartition]_vars

\* drags with either button, moving and released, in every tool state, on
\* the largest table of domain "A"
NextDrag ==
    \/ Load([dom |-> "A", n |-> MaxRows], {})
    \/ \E state \in ToolStates : ToolButton(state)
    \/ \E button \in {"left", "right"}, isFinish \in BOOLEAN,
          p1 \in LassoStarts, p2 \in LassoEnds, keys \in {{}, {"ctrl"}} :
           Drag(button, isFinish, p1, p2, keys)

SpecDrag == Init /\ [][NextDrag]_vars

\* every two segments with end points on the grid
InitIntersects ==
    /\ InitWidget
    /\ display_index = RANGE_WITH_MEAN
    /\ args \in Grid \X Grid \X Grid \X Grid
    /\ result = NotCalled

NextIntersects == Intersects

SpecIntersects == InitIntersects /\ [][NextIntersects]_vars

\* every cutting line against every polyline
InitCut ==
    /\ InitWidget
    /\ display_index = RANGE_WITH_MEAN
    /\ args \in CutInputs
    /\ result = NotCalled

NextCut == CutPolyline

SpecCut == InitCut /\ [][NextCut]_vars

\* the error bar of every column
InitErrorBar ==
    /\ InitWidget
    /\ display_index = RANGE_WITH_MEAN
    /\ args \in Columns
    /\ result = NotCalled

NextErrorBar == ErrorBar

SpecErrorBar == InitErrorBar /\ [][NextErrorBar]_vars

\* an unmodified selection of every index list, and its commit
InitSetOrder ==
    /\ InitWidget
    /\ display_index = RANGE_WITH_MEAN
    /\ args \in IndexLists
    /\ result = NotCalled

NextSetOrder == SelectAndCommit

SpecSetOrder == InitSetOrder /\ [][NextSetOrder]_vars

(* -------------------------------- claims ------------------------------- *)

Gestures == {"lasso", "click", "click_empty"}

SymmetricDifference(S, C) == (S \ C) \cup (C \ S)

\* what commit sends as Selected Data for a table and a selection list
ExpectedSelected(d, sel) ==
    IF d # NoData /\ sel # <<>>
    THEN [isNone |-> FALSE, rows |-> RowsAt(d, sel)]
    ELSE NoOutput

\* C1: a lasso or a click on a profile with candidate set C, made while the
\* selection is S, leaves C with no modifier, S symmetric-difference C with
\* ctrl, S minus C with alt and S union C with shift, in the graph and in
\* the widget.
C1_ModifierSemantics ==
    [][(last'.op \in {"lasso", "click"}
        /\ last'.keys \in {{}, {"ctrl"}, {"alt"}, {"shift"}})
       => /\ graph_selection' =
                 (IF last'.keys = {} THEN last'.cand
                  ELSE IF last'.keys = {"ctrl"}
                  THEN SymmetricDifference(graph_selection, last'.cand)
                  ELSE IF last'.keys = {"alt"}
                  THEN graph_selection \ last'.cand
                  ELSE graph_selection \cup last'.cand)
          /\ Range(selection') = graph_selection']_vars

\* a ctrl lasso over several profiles has removed one of them from a
\* selection and left others selected
C1_Witness ==
    /\ last.op = "lasso"
    /\ last.keys = {"ctrl"}
    /\ last.cand \ graph_selection # {}
    /\ graph_selection # {}

\* C2: whenever a commit reads the widget's selection, every index in it
\* is below the row count of the table held, so no commit fails on an
\* index; in particular after a load onto a smaller (or empty) table the
\* selection holds no index of a row that is gone, in every display mode.
C2_SelectionInRange ==
    /\ "IndexError" \notin Range(errors)
    /\ data # NoData => \A i \in Range(selection) : i < data.n

\* the selection the settings context of a table's domain gives back when
\* the table is loaded: the widget's own if that context is the open one
SavedSelection(d) ==
    IF d = NoData THEN <<>>
    ELSE IF current_context = d.dom THEN selection
    ELSE contexts[d.dom].selection

\* C3 as stated, where no selected index is at or beyond the new row count
\* (and no modifier is held): a load or a change of the grouping variable
\* leaves the selection as it was.
C3_SelectionKept ==
    [][(/\ last'.op \in {"load", "group"}
        /\ last'.keys = {}
        /\ \A i \in Range(selection) : i < data'.n)
       => selection' = selection]_vars

\* C3: a change of the grouping variable leaves the selection of the widget
\* and of the graph as it was.  A load made with no modifier key held gives
\* exactly the selection held by the settings context of the loaded table's
\* domain (for a reload of the open domain, the selection before the load)
\* whenever every index of it is below the new row count, in every display
\* mode.  When some index of it is at or beyond the new row count, a load
\* that plots profiles (display other than MEAN, table with rows) gives the
\* empty selection; a load that keeps such a selection has failed with an
\* exception and kept all of it.  No load leaves a part of the saved
\* selection.
C3_SelectionRestoredOrEmpty ==
    [][/\ last'.op = "group"
          => selection' = selection /\ graph_selection' = graph_selection
       /\ last'.op = "load"
          => LET d == last'.d
                 saved == SavedSelection(d)
                 rows == IF d = NoData THEN 0 ELSE d.n
                 in_range == \A i \in Range(saved) : i < rows
             IN /\ selection' \in {<<>>, saved}
                /\ (last'.keys = {} /\ in_range) => selection' = saved
                /\ (~in_range /\ display_index # MEAN /\ rows > 0)
                      => selection' = <<>>
                /\ (~in_range /\ selection' # <<>>)
                      => selection' = saved /\ errors' # <<>>]_vars

\* a load onto a table of the same domain has brought back a selection of
\* several rows and applied it to the profiles
C3_Witness ==
    /\ last.op = "load"
    /\ Len(selection) > 1
    /\ graph_selection = Range(selection)
    /\ profiles

\* C4: the candidates of a cutting line are the indices of all the rows of
\* the table held whose polyline the line crosses, whatever the display
\* mode and whether or not the profile items exist.
C4_CandidatesAreAllCrossedRows ==
    data # NoData =>
        \A p1 \in LassoStarts, p2 \in LassoEnds :
            Range(LineCandidates(St, p1, p2)) =
                {i \in 0..(data.n - 1) :
                    line_segments_line_intersect(p1, p2,
                                                 ProfileItem(data, i))}

\* C5: a finished gesture (lasso, click on a profile, click on empty space)
\* does, once and in this order: set the widget's selection to the graph's,
\* recompute visibility, send the outputs for that selection; also when the
\* selection is the same as before.
C5_GestureNotifiesOnce ==
    last.op \in Gestures =>
        /\ events = <<"selection_changed", "update_visibility", "commit">>
        /\ errors = <<>>
        /\ selection = SetToList(graph_selection)
        /\ selected_data = ExpectedSelected(data, selection)
        /\ annotated_data = Annotated(data, selection)

\* a shift lasso that crossed nothing has left a selection as it was and
\* the outputs were sent for it
C5_Witness ==
    /\ last.op = "lasso"
    /\ last.keys = {"shift"}
    /\ last.cand = {}
    /\ ~last.changed
    /\ graph_selection # {}
    /\ ~selected_data.isNone

\* C6: a click on empty space with no modifier empties the selection of the
\* graph and of the widget, and leaves the state that select([]) with no
\* modifier leaves.
C6_ClickEmptyClears ==
    [][(last'.op = "click_empty" /\ last'.keys = {})
       => /\ graph_selection' = {}
          /\ selection' = <<>>
          /\ Becomes(Caught(graph_select(Begin, <<>>, {})))]_vars

\* such a click has emptied a selection
C6_Witness ==
    /\ last.op = "click_empty"
    /\ last.keys = {}
    /\ last.changed
    /\ graph_selection = {}

\* C7: after a ctrl gesture with candidates C, the same ctrl gesture again
\* gives back the selection the first one found.
C7_ToggleInvolution ==
    [][(last'.op \in {"lasso", "click"} /\ last'.keys = {"ctrl"})
       => graph_select(St', SetToList(last'.cand), {"ctrl"}).graph_selection
              = graph_selection]_vars

\* a ctrl lasso has added rows to a selection that held others
C7_Witness ==
    /\ last.op = "lasso"
    /\ last.keys = {"ctrl"}
    /\ last.changed
    /\ last.cand # {}
    /\ last.cand \subseteq graph_selection
    /\ graph_selection # last.cand

\* C8: after a shift gesture with candidates C, the same shift gesture
\* again leaves the selection as the first one left it.
C8_UnionIdempotent ==
    [][(last'.op \in {"lasso", "click"} /\ last'.keys = {"shift"})
       => graph_select(St', SetToList(last'.cand), {"shift"}).graph_selection
              = graph_selection']_vars

\* a shift lasso has added rows to a selection that held others
C8_Witness ==
    /\ last.op = "lasso"
    /\ last.keys = {"shift"}
    /\ last.changed
    /\ last.cand # {}
    /\ graph_selection # last.cand

\* C9: a change of the subset (set_data_subset, then handleNewSignals)
\* leaves the selection of the widget and of the graph and the outputs as
\* they were, sends nothing, raises nothing and creates no profile items.
C9_SubsetKeepsSelection ==
    [][last'.op = "subset"
       => /\ selection' = selection
          /\ graph_selection' = graph_selection
          /\ "commit" \notin Range(events')
          /\ selected_data' = selected_data
          /\ annotated_data' = annotated_data
          /\ errors' = <<>>
          /\ profiles' = profiles
          /\ DOMAIN items' = DOMAIN items]_vars

\* a subset has been set while rows were selected: its rows are marked and
\* visibility was recomputed
C9_Witness ==
    /\ last.op = "subset"
    /\ selection # <<>>
    /\ subset_selection # {}
    /\ \E i \in DOMAIN items : items[i].in_subset
    /\ "update_visibility" \in Range(events)

\* C10: a profile is visible iff the mode is INSTANCES or
\* INSTANCES_WITH_MEAN, or the mode is RANGE_WITH_MEAN and the profile is
\* selected or its row id is in the subset membership.
C10_ProfileVisibility ==
    \A i \in DOMAIN items :
        items[i].visible <=>
            \/ display_index \in {INSTANCES, INSTANCES_WITH_MEAN}
            \/ /\ display_index = RANGE_WITH_MEAN
               /\ i \in Range(selection) \/ items[i].id \in subset_selection

\* C11: every group that has rows shows its mean curve exactly in the modes
\* MEAN, INSTANCES_WITH_MEAN and RANGE_WITH_MEAN, its range exactly in the
\* mode RANGE_WITH_MEAN, and its error bar exactly when the "Error bars"
\* box is checked, whatever the mode
C11_GroupVisibility ==
    \A k \in 1..Len(groups.list) :
        ~groups.list[k].isNone =>
            /\ groups.list[k].mean <=>
                   display_index \in {MEAN, INSTANCES_WITH_MEAN, RANGE_WITH_MEAN}
            /\ groups.list[k].range <=> display_index = RANGE_WITH_MEAN
            /\ groups.list[k].error_bar <=> display_quartiles

\* the error bars of a group are shown in the mode without mean
C11_Witness ==
    /\ last.op = "quartiles"
    /\ display_index = INSTANCES
    /\ display_quartiles
    /\ \E k \in 1..Len(groups.list) :
           ~groups.list[k].isNone /\ groups.list[k].error_bar

\* C12: the Selected Data of a commit is None for an empty selection and
\* else the selected rows of the table in ascending index order, whatever
\* the order of the indices given to the selection
C12_SelectedAscending ==
    result # NotCalled =>
        result[1].selected =
            ExpectedSelected(WideTable, SetToList(Range(args)))

\* C13: when the handlers of an event have committed, the annotated output
\* is the table held, row by row in its order, with row i marked exactly
\* when i is in the selection (no table: None); with an empty selection
\* the outputs are None and the table with no row marked
C13_AnnotatedMarksSelection ==
    "commit" \in Range(events) =>
        /\ annotated_data.isNone <=> data = NoData
        /\ data # NoData =>
               /\ Len(annotated_data.marks) = data.n
               /\ \A i \in 0..(data.n - 1) :
                      annotated_data.marks[i + 1] <=> i \in Range(selection)
        /\ selection = <<>> =>
               /\ selected_data = NoOutput
               /\ \A k \in 1..Len(annotated_data.marks) :
                      ~annotated_data.marks[k]

\* a commit has marked the second row of a table and not the first
C13_Witness ==
    /\ "commit" \in Range(events)
    /\ data.n >= 2
    /\ selection = <<1>>
    /\ annotated_data.marks[1] = FALSE
    /\ annotated_data.marks[2] = TRUE

\* C14: from the load of a table without continuous columns until the
\* next load, the message is shown, no table is held, the selection is
\* empty, there are no profiles and no groups, and no handler of an event
\* (the load itself, gestures, regrouping, display changes, subset
\* changes) has raised
C14_InvalidDataset ==
    not_enough_attrs =>
        /\ data = NoData
        /\ selection = <<>>
        /\ graph_selection = {}
        /\ ~profiles
        /\ items = NoItems
        /\ groups = NoGroups
        /\ selected_data = NoOutput
        /\ errors = <<>>

\* after a selection was made on a table, a table without continuous
\* columns was loaded, a subset was given, and a lasso was drawn
C14_Witness ==
    /\ not_enough_attrs
    /\ contexts["A"].selection # <<>>
    /\ data_subset.ids # {}
    /\ last.op = "lasso"

\* C15: the extents of an error bar are not negative: the bottom is
\* max(0, mean - q1) and the top is max(0, q3 - mean), also where the mean
\* lies outside the quartiles
C15_ErrorBarNonNegative ==
    result # NotCalled =>
        /\ result[1].bottom >= 0
        /\ result[1].top >= 0
        /\ result[1].bottom =
               Maximum(0, nanmean(args) - nanpercentile(args, 1))
        /\ result[1].top =
               Maximum(0, nanpercentile(args, 3) - nanmean(args))

\* C16: intersects gives the same answer for the segments a-b, c-d and for
\* c-d, a-b, for all points of the grid, collinear and coincident ones
\* included
C16_IntersectsSymmetric ==
    result # NotCalled /\ Len(args) = 4 =>
        result[1].ab_cd = result[1].cd_ab

\* c lies on the segment a-b, between its end points, and the segments
\* are found to intersect
C16_Witness ==
    /\ result # NotCalled
    /\ Len(args) = 4
    /\ args[1] = [x |-> 0, y |-> 0]
    /\ args[2] = [x |-> 2, y |-> 0]
    /\ args[3] = [x |-> 1, y |-> 0]
    /\ result[1].ab_cd
    /\ result[1].cd_ab

\* twice the signed area of the triangle a, b, c
Cross(a, b, c) == (b.x - a.x) * (c.y - a.y) - (b.y - a.y) * (c.x - a.x)

\* the corners of the axis-aligned bounding box of a polyline
BoxCorners(poly) ==
    LET xs == {poly[k].x : k \in 1..Len(poly)}
        ys == {poly[k].y : k \in 1..Len(poly)}
    IN {[x |-> i, y |-> j] : i \in {SetMin(xs), SetMax(xs)},
                             j \in {SetMin(ys), SetMax(ys)}}

\* the segment p1-p2 has no point inside or on the bounding box: the two
\* convex sets are apart along x, along y, or across the line through p1
\* and p2
CutOutsideBox(p1, p2, poly) ==
    LET box == BoxCorners(poly)
    IN \/ \A q \in box : p1.x < q.x /\ p2.x < q.x
       \/ \A q \in box : p1.x > q.x /\ p2.x > q.x
       \/ \A q \in box : p1.y < q.y /\ p2.y < q.y
       \/ \A q \in box : p1.y > q.y /\ p2.y > q.y
       \/ \A q \in box : Cross(p1, p2, q) > 0
       \/ \A q \in box : Cross(p1, p2, q) < 0

\* C17: a cutting line without a point inside or on the bounding box of a
\* polyline is not found to intersect it, also with end points collinear
\* with segments of the polyline and with segments of length zero
C17_OutsideBoxNeverHit ==
    (/\ result # NotCalled
     /\ args.poly # <<>>
     /\ CutOutsideBox(args.p1, args.p2, args.poly))
    => result[1] = FALSE

\* a cutting line outside the box that starts on the line through the
\* first segment of a polyline whose second segment has length zero
C17_Witness ==
    /\ result = <<FALSE>>
    /\ args.poly = <<[x |-> 0, y |-> 0], [x |-> 1, y |-> 0], [x |-> 1, y |-> 0]>>
    /\ args.p1 = [x |-> 2, y |-> 0]
    /\ args.p2 = [x |-> 2, y |-> 2]
    /\ CutOutsideBox(args.p1, args.p2, args.poly)

\* C18: line_segments_line_intersect is true exactly when intersects is
\* true for the line and two consecutive points of the polyline (never for
\* fewer than two points); the polyline (1,0), (2,5), (3,0) is hit by the
\* line (1.5,10)-(1.5,-10) and not by (10,10)-(10,-10)
C18_SomeConsecutivePair ==
    result # NotCalled =>
        /\ result[1] <=>
               \E i \in 1..(Len(args.poly) - 1) :
                   intersects(args.p1, args.p2, args.poly[i], args.poly[i + 1])
        /\ Len(args.poly) < 2 => result[1] = FALSE
        /\ args = ExampleHit => result[1] = TRUE
        /\ args = ExampleMiss => result[1] = FALSE

\* a polyline of three points is hit in its second segment only
C18_Witness ==
    /\ result = <<TRUE>>
    /\ Len(args.poly) = MaxPoints
    /\ ~intersects(args.p1, args.p2, args.poly[1], args.poly[2])
    /\ intersects(args.p1, args.p2, args.poly[2], args.poly[3])

\* C19: the subset membership held after an event is the intersection of
\* the row ids of the table held and of the subset held, the profiles
\* marked are those of the membership, and no marking looked up a row id
\* without a profile, in every display mode
C19_SubsetMembership ==
    /\ subset_selection =
           IF data # NoData /\ ~data_subset.isNone
           THEN Ids(data) \cap data_subset.ids ELSE {}
    /\ \A i \in DOMAIN items :
           items[i].in_subset <=> items[i].id \in subset_selection
    /\ "KeyError" \notin Range(errors)

\* the groups of a table under a grouping variable, each as the set of its
\* rows: all rows without a variable, else one group per value
GroupsOf(d, var) ==
    IF var = "None" THEN <<0..(d.n - 1)>>
    ELSE [k \in 1..NumValues(var) |-> GroupIndices(d, var, k - 1)]

\* C20: the group curves held are those of the table held under the
\* grouping variable held: one entry per group, made from exactly the rows
\* of that group, an empty placeholder for a group without rows, and
\* nothing without a table
C20_GroupsAreCurrent ==
    IF data = NoData THEN groups = NoGroups
    ELSE /\ ~groups.isNone
         /\ Len(groups.list) = Len(GroupsOf(data, group_var))
         /\ \A k \in 1..Len(groups.list) :
                /\ groups.list[k].rows = GroupsOf(data, group_var)[k]
                /\ groups.list[k].isNone <=> GroupsOf(data, group_var)[k] = {}

\* C21: the groups held partition the rows of the table held: every row
\* index is in the rows of exactly one group (rows without a value of the
\* grouping variable in one bucket of their own), so the sizes of the
\* groups sum to the number of rows; without a grouping variable all rows
\* are one group
C21_GroupsPartitionRows ==
    (data # NoData /\ errors = <<>>) =>
        /\ \A i \in 0..(data.n - 1) :
               Cardinality({k \in 1..Len(groups.list) :
                               i \in groups.list[k].rows}) = 1
        /\ group_var = "None" /\ data.n > 0 => Len(groups.list) = 1

\* C22: an event of a drag that is not its release, or is made with
\* another button than the left, or while the tool state is PANNING or
\* ZOOMING, leaves the selection of graph and widget, the flags of the
\* profiles and the outputs as they were, and no handler commits
C22_UnfinishedDragKeepsSelection ==
    [][(\/ last'.op \in {"drag_move", "drag_other"}
        \/ last'.op = "drag_release" /\ graph_state \in {"PANNING", "ZOOMING"})
       => /\ graph_selection' = graph_selection
          /\ selection' = selection
          /\ items' = items
          /\ selected_data' = selected_data
          /\ annotated_data' = annotated_data
          /\ events' = <<>>]_vars

\* with rows selected, a left-button drag across other profiles was
\* released in the PANNING state
C22_Witness ==
    /\ last.op = "drag_release"
    /\ graph_state = "PANNING"
    /\ last.cand # {}
    /\ graph_selection # {}
    /\ last.cand # graph_selection
    /\ events = <<>>

\* C23: after every event the selection list of the widget, which commit
\* sends and the context saves, holds exactly the indices of the graph's
\* selection, and a profile item is flagged selected exactly when its
\* index is in that selection
C23_SelectionListIsGraphSelection ==
    /\ Range(selection) = graph_selection
    /\ \A i \in DOMAIN items : items[i].selected <=> i \in graph_selection

====
